---- MODULE Spec2Model ----
(***************************************************************************)
(* Model of FileService (frontend/services/fileService.js): validateFile,  *)
(* uploadFile with its two upload strategies, saveFileMetadata with its    *)
(* token refresh, handleUploadError and retryUpload.                       *)
(*                                                                         *)
(* One run of the model is one call retryUpload(file, onProgress, attempt) *)
(* on the service; the backend, the object storage and authService are the *)
(* environment, which answers every request with any of its responses.     *)
(*                                                                         *)
(* Text is modelled as a sequence of one-character strings where the code  *)
(* inspects it (file names, extensions) and as a sequence of message       *)
(* fragments where the code only builds and passes it on (messages).       *)
(***************************************************************************)
EXTENDS Integers, Sequences, FiniteSets, TLC

\* ------------------------------------------------------------------ bounds

\* The environment answers at most this many metadata POSTs of one
\* saveFileMetadata call with 401; the recursion of the code has no bound.
MaxUnauthorized == 3

\* cancelUpload is called at most this many times while a request is outstanding
MaxCancels == 1

\* the transport reports the progress of one multipart POST at most this many times
MaxProgressEvents == 1

\* ------------------------------------------------- constructor (lines 7-74)

uploadLimit == 50 * 1024 * 1024

retryAttempts == 3

retryDelay == 1000

MB == 1024 * 1024

\* this.allowedTypes: Object.values() walks the classes in insertion order,
\* so the configuration is the sequence of its values.
allowedTypes ==
  << [ key        |-> "image",
       extensions |-> << <<".", "j", "p", "g">>, <<".", "j", "p", "e", "g">>,
                         <<".", "p", "n", "g">>, <<".", "g", "i", "f">>,
                         <<".", "w", "e", "b", "p">> >>,
       mimeTypes  |-> << "image/jpeg", "image/png", "image/gif", "image/webp" >>,
       maxSize    |-> 10 * MB,
       folder     |-> "images" ],
     [ key        |-> "video",
       extensions |-> << <<".", "m", "p", "4">>, <<".", "w", "e", "b", "m">>,
                         <<".", "m", "o", "v">> >>,
       mimeTypes  |-> << "video/mp4", "video/webm", "video/quicktime" >>,
       maxSize    |-> 50 * MB,
       folder     |-> "videos" ],
     [ key        |-> "audio",
       extensions |-> << <<".", "m", "p", "3">>, <<".", "w", "a", "v">>,
                         <<".", "o", "g", "g">> >>,
       mimeTypes  |-> << "audio/mpeg", "audio/wav", "audio/ogg" >>,
       maxSize    |-> 20 * MB,
       folder     |-> "audio" ],
     [ key        |-> "document",
       extensions |-> << <<".", "p", "d", "f">>, <<".", "d", "o", "c">>,
                         <<".", "d", "o", "c", "x">>, <<".", "t", "x", "t">> >>,
       mimeTypes  |-> << "application/pdf", "application/msword",
                         "application/vnd.openxmlformats-officedocument.wordprocessingml.document",
                         "text/plain" >>,
       maxSize    |-> 20 * MB,
       folder     |-> "documents" ],
     [ key        |-> "archive",
       extensions |-> << <<".", "z", "i", "p">>, <<".", "r", "a", "r">>,
                         <<".", "7", "z">> >>,
       mimeTypes  |-> << "application/zip", "application/x-rar-compressed",
                         "application/x-7z-compressed" >>,
       maxSize    |-> 50 * MB,
       folder     |-> "archives" ] >>

\* Array.prototype.includes
Includes(arr, x) == \E i \in 1..Len(arr) : arr[i] = x

\* --------------------------------------------------------- text primitives

UpperCaseLetters ==
  << "A", "B", "C", "D", "E", "F", "G", "H", "I", "J", "K", "L", "M",
     "N", "O", "P", "Q", "R", "S", "T", "U", "V", "W", "X", "Y", "Z" >>

LowerCaseLetters ==
  << "a", "b", "c", "d", "e", "f", "g", "h", "i", "j", "k", "l", "m",
     "n", "o", "p", "q", "r", "s", "t", "u", "v", "w", "x", "y", "z" >>

\* String.prototype.toLowerCase, character by character
toLowerCase(s) ==
  [ i \in 1..Len(s) |->
      IF \E k \in 1..Len(UpperCaseLetters) : UpperCaseLetters[k] = s[i]
      THEN LowerCaseLetters[CHOOSE k \in 1..Len(UpperCaseLetters) : UpperCaseLetters[k] = s[i]]
      ELSE s[i] ]

\* String.prototype.lastIndexOf: 0-based, -1 when the character is absent
lastIndexOf(s, c) ==
  LET hits == { i \in 1..Len(s) : s[i] = c }
  IN  IF hits = {} THEN -1
      ELSE (CHOOSE i \in hits : \A j \in hits : j <= i) - 1

\* String.prototype.substring(start): a negative start counts as 0
substring(s, start) ==
  LET from == IF start < 0 THEN 0 ELSE start
  IN  SubSeq(s, from + 1, Len(s))

\* getFileExtension (lines 510-512)
getFileExtension(filename) == substring(filename, lastIndexOf(filename, "."))

\* ------------------------------------------------------ results and errors

NoMessage == << >>

\* the user-facing messages of the code (the Korean literals, by meaning)
MsgNoFileSelected      == << "no file selected" >>
MsgUploadLimit         == << "file size must not exceed the upload limit" >>
MsgUnsupportedType     == << "unsupported file type" >>
MsgTypeSizeLimit(cfg)  == << cfg.key, " file must not exceed its class limit" >>
MsgBadExtension(cfg)   == << cfg.key, " file has a wrong extension" >>
MsgNoCredentials       == << "no authentication information" >>
MsgCancelled           == << "upload was cancelled" >>
MsgSessionExpired      == << "session expired, log in again" >>
MsgMetadataSaveFailed  == << "saving the metadata failed" >>
MsgFileMetadataFailed  == << "saving the file metadata failed" >>
MsgLegacyUploadFailed  == << "file upload failed" >>
MsgTimeout             == << "file upload timed out" >>
MsgBadRequest          == << "bad request" >>
MsgAuthRequired        == << "authentication required" >>
MsgTooLarge            == << "file is too large" >>
MsgUnsupportedMedia    == << "unsupported media type" >>
MsgServerError         == << "server error" >>
MsgUnknownError        == << "unknown error" >>
MsgRetryExhausted      == << "maximum retry count exceeded" >>
MsgTypeError           == << "cannot read properties of undefined" >>
MsgFailedToFetch       == << "Failed to fetch" >>
MsgNetworkError        == << "Network Error" >>
MsgAxiosStatus(status) == << "Request failed with status code ", ToString(status) >>
MsgBackend             == << "message of the backend" >>

\* FileRecord: data.file of a success result; absent properties are "" / << >>
FileRecord(id, filename, url, s3Key) ==
  [ id |-> id, filename |-> filename, url |-> url, s3Key |-> s3Key ]

NoFileRecord == FileRecord("", << >>, << >>, << >>)

\* a result object {success, message, typeConfig, data:{file}, error}; error
\* is the name of the attached Error object, "" when there is none
Result(success, message, typeConfig, fileRecord, error) ==
  [ success |-> success, message |-> message, typeConfig |-> typeConfig,
    file |-> fileRecord, error |-> error ]

Failure(message) == Result(FALSE, message, "", NoFileRecord, "")

Success(fileRecord) == Result(TRUE, << >>, "", fileRecord, "")

NoResult == Result(FALSE, << >>, "", NoFileRecord, "")

\* an Error object: name, code, whether axios made it, the status and the
\* data.message of its response (0 / << >> when there is none), its message
Error(name, code, isAxios, status, dataMessage, message) ==
  [ name |-> name, code |-> code, isAxiosError |-> isAxios, status |-> status,
    dataMessage |-> dataMessage, message |-> message ]

PlainError(message) == Error("Error", "", FALSE, 0, NoMessage, message)

TypeError == Error("TypeError", "", FALSE, 0, NoMessage, MsgTypeError)

NoError == Error("", "", FALSE, 0, NoMessage, NoMessage)

\* how a call ended: it returned a result, or it threw an error
Returned(result) == [ kind |-> "returned", result |-> result, error |-> NoError ]

Threw(error) == [ kind |-> "threw", result |-> NoResult, error |-> error ]

Pending == [ kind |-> "pending", result |-> NoResult, error |-> NoError ]

\* a || b on messages: an undefined or empty message is falsy
OrElse(message, fallback) == IF message = NoMessage THEN fallback ELSE message

\* ------------------------------------------------ validateFile (lines 76-163)

NoFile == [ present |-> FALSE, name |-> << >>, type |-> "", size |-> 0 ]

\* the loops of lines 100-107 and 112-120: the first configuration, in order,
\* among those that match (given by their positions); 0 when none matches
FirstConfig(matching) ==
  IF matching = {} THEN 0
  ELSE CHOOSE i \in matching : \A j \in matching : i <= j

\* the configurations whose MIME types include the type (101)
ByMime(type) ==
  { i \in 1..Len(allowedTypes) : Includes(allowedTypes[i].mimeTypes, type) }

\* the configurations whose extensions include the extension (113)
ByExt(ext) ==
  { i \in 1..Len(allowedTypes) : Includes(allowedTypes[i].extensions, ext) }

\* exceeds with the comparison turned around
exceedsReversed(size, limit) == size < limit

\* the size tests of lines 89 and 137
exceeds(size, limit) == size > limit

\* matchConfig without the fallback to the extension
matchConfigMimeOnly(f, ext) == FirstConfig(ByMime(f.type))

\* the matching of lines 95-121: the first class in configuration order whose
\* MIME types include the declared type; only when there is none, the first
\* whose extensions include the extension; 0 when nothing matches
matchConfig(f, ext) ==
  LET byMime == FirstConfig(ByMime(f.type))
  IN  IF byMime # 0 THEN byMime ELSE FirstConfig(ByExt(ext))

\* extensionAllowed testing the extension against every class
extensionAllowedAnyClass(typeConfig, ext) ==
  \E i \in 1..Len(allowedTypes) : Includes(allowedTypes[i].extensions, ext)

\* the extension test of line 144 on the matched class
extensionAllowed(typeConfig, ext) == Includes(typeConfig.extensions, ext)

validateFile(f) ==
  IF ~f.present THEN Failure(MsgNoFileSelected)
  ELSE IF exceeds(f.size, uploadLimit) THEN Failure(MsgUploadLimit)
  ELSE
    LET ext   == toLowerCase(getFileExtension(f.name))
        found == matchConfig(f, ext)
    IN  IF found = 0 THEN Failure(MsgUnsupportedType)
        ELSE
          LET typeConfig == allowedTypes[found]
          IN  IF exceeds(f.size, typeConfig.maxSize)
                THEN Failure(MsgTypeSizeLimit(typeConfig))
              ELSE IF ~extensionAllowed(typeConfig, ext)
                THEN Failure(MsgBadExtension(typeConfig))
              ELSE Result(TRUE, NoMessage, typeConfig.key, NoFileRecord, "")

\* Config(key): the configuration validateFile returned
Config(key) == allowedTypes[CHOOSE i \in 1..Len(allowedTypes) : allowedTypes[i].key = key]

\* ------------------------------------------- key and URL (lines 165-180, 491)

\* generateS3Key: uploads/<folder>/<timestamp>-<uuid><ext>; the timestamp and
\* the uuid are one opaque fragment
generateS3Key(f, typeConfig) ==
  << "uploads/", typeConfig.folder, "/", "timestamp-uuid" >> \o getFileExtension(f.name)

getS3Url(cloudFront, s3Key) ==
  IF cloudFront THEN << "https://", "cloudFrontDomain", "/" >> \o s3Key
  ELSE << "bucketUrl", "/" >> \o s3Key

getFileUrl(cloudFront, s3Key) == getS3Url(cloudFront, s3Key)

\* ------------------------------------------ handleUploadError (lines 526-579)

handleUploadError(error) ==
  IF error.code = "ECONNABORTED" THEN Failure(MsgTimeout)
  ELSE IF error.isAxiosError THEN
    CASE error.status = 400 -> Failure(OrElse(error.dataMessage, MsgBadRequest))
      [] error.status = 401 -> Failure(MsgAuthRequired)
      [] error.status = 413 -> Failure(MsgTooLarge)
      [] error.status = 415 -> Failure(MsgUnsupportedMedia)
      [] error.status = 500 -> Failure(MsgServerError)
      [] OTHER              -> Failure(OrElse(error.dataMessage, MsgLegacyUploadFailed))
  ELSE Result(FALSE, OrElse(error.message, MsgUnknownError), "", NoFileRecord, error.name)

\* the catch block of uploadFile (lines 265-276)
uploadFileCatch(error) ==
  IF error.name = "AbortError" THEN Failure(MsgCancelled)
  ELSE handleUploadError(error)

\* ------------------------------------------------------------- environment

\* what the object storage answers to the PUT: a response with a status, or
\* no response at all (fetch rejects)
PutResponses ==
  { [ rejected |-> FALSE, status |-> 200 ], [ rejected |-> FALSE, status |-> 403 ],
    [ rejected |-> FALSE, status |-> 500 ], [ rejected |-> TRUE, status |-> 0 ] }

\* a backend answer: the HTTP status (0: no response, "TIMEOUT" code set by
\* axios apart) and the body {success, message, file}; shape is where the
\* body carries the file: "data.file", "file" or "" (no file)
Answer(status, code, success, message, shape) ==
  [ status |-> status, code |-> code, success |-> success, message |-> message,
    shape |-> shape ]

MetaResponses ==
  { Answer(200, "", TRUE, NoMessage, "data.file"),
    Answer(200, "", TRUE, NoMessage, ""),
    Answer(200, "", FALSE, MsgBackend, ""),
    Answer(200, "", FALSE, NoMessage, ""),
    Answer(401, "ERR_BAD_REQUEST", FALSE, MsgBackend, ""),
    Answer(400, "ERR_BAD_REQUEST", FALSE, MsgBackend, ""),
    Answer(500, "ERR_BAD_RESPONSE", FALSE, NoMessage, ""),
    Answer(0, "ERR_NETWORK", FALSE, NoMessage, "") }

LegacyResponses ==
  { Answer(200, "", TRUE, NoMessage, "file"),
    Answer(200, "", TRUE, NoMessage, "data.file"),
    Answer(200, "", FALSE, MsgBackend, ""),
    Answer(200, "", FALSE, NoMessage, ""),
    Answer(401, "ERR_BAD_REQUEST", FALSE, MsgBackend, ""),
    Answer(413, "ERR_BAD_REQUEST", FALSE, NoMessage, ""),
    Answer(500, "ERR_BAD_RESPONSE", FALSE, MsgBackend, ""),
    Answer(0, "ECONNABORTED", FALSE, NoMessage, ""),
    Answer(0, "ERR_NETWORK", FALSE, NoMessage, "") }

RefreshResponses == { "true", "false", "throws" }

Is2xx(status) == status >= 200 /\ status < 300

\* the error axios rejects with for an answer that is not 2xx
AxiosError(a) ==
  Error("AxiosError", a.code, TRUE, a.status, a.message,
        IF a.status = 0 THEN MsgNetworkError ELSE MsgAxiosStatus(a.status))

\* ------------------------------------------------------------------- state

VARIABLES
  file,             \* the file argument, NoFile when missing
  onProgress,       \* whether a progress callback was given
  startAttempt,     \* the attempt argument of the top-level retryUpload call
  user,             \* authService.getCurrentUser()
  bucketName,       \* whether NEXT_PUBLIC_S3_BUCKET_NAME is set
  cloudFrontDomain, \* whether NEXT_PUBLIC_CLOUDFRONT_DOMAIN is set
  pc,               \* where the call is suspended
  attempt,          \* the attempt argument of the running retryUpload
  delays,           \* the delays retryUpload has waited, in order
  calls,            \* how each uploadFile invocation ended, in order
  final,            \* how the top-level retryUpload call ended
  validationResult, \* the result of validateFile in the running uploadFile
  s3UploadResult,   \* the result of uploadToS3 in the running uploadFile
  trace,            \* requests sent and answers received by the running uploadFile
  progress,         \* the values onProgress was called with
  activeUploads,    \* this.activeUploads: the file names that have a cancellation handle
  cancels           \* the cancelUpload calls made: file name and value returned

vars ==
  << file, onProgress, startAttempt, user, bucketName, cloudFrontDomain, pc,
     attempt, delays, calls, final, validationResult, s3UploadResult, trace,
     progress, activeUploads, cancels >>

inputs == << file, onProgress, startAttempt, user, bucketName, cloudFrontDomain >>

\* the cancellation registry and the record of the cancelUpload calls, which
\* no statement of the upload operations writes
registry == << activeUploads, cancels >>

Event(ev, r) == [ ev |-> ev, r |-> r ]

Count(ev) == Cardinality({ i \in 1..Len(trace) : trace[i].ev = ev })

CountAnswer(ev, r) ==
  Cardinality({ i \in 1..Len(trace) : trace[i].ev = ev /\ trace[i].r = r })

\* ------------------------------------------------------------------ inputs

FileNames ==
  { << "a", ".", "p", "n", "g" >>, << "a", ".", "P", "N", "G" >>,
    << "a", ".", "m", "p", "4" >>, << "a", ".", "z", "i", "p" >>,
    << "a", ".", "e", "x", "e" >>, << "p", "n", "g" >>,
    << "a", ".", "p", "n", "g", ".", "z", "i", "p" >> }

FileTypes ==
  { "image/png", "video/mp4", "application/zip", "", "application/octet-stream" }

FileSizes == { 1, 10 * MB, 10 * MB + 1, 50 * MB, 50 * MB + 1 }

Files ==
  { [ present |-> TRUE, name |-> n, type |-> t, size |-> z ] :
      n \in FileNames, t \in FileTypes, z \in FileSizes } \cup { NoFile }

\* getCurrentUser(): null, or a user with or without token and session id
Users ==
  { [ present |-> FALSE, token |-> FALSE, sessionId |-> FALSE ],
    [ present |-> TRUE, token |-> TRUE, sessionId |-> FALSE ],
    [ present |-> TRUE, token |-> FALSE, sessionId |-> TRUE ],
    [ present |-> TRUE, token |-> TRUE, sessionId |-> TRUE ] }

NoS3UploadResult == [ s3Key |-> << >>, url |-> << >> ]

Init ==
  /\ file \in Files
  /\ onProgress \in BOOLEAN
  /\ startAttempt \in 1..(retryAttempts + 1)
  /\ user \in Users
  /\ bucketName \in BOOLEAN
  /\ cloudFrontDomain \in BOOLEAN
  /\ pc = "retryUpload"
  /\ attempt = startAttempt
  /\ delays = << >>
  /\ calls = << >>
  /\ final = Pending
  /\ validationResult = NoResult
  /\ s3UploadResult = NoS3UploadResult
  /\ trace = << >>
  /\ progress = << >>
  /\ activeUploads = { }
  /\ cancels = << >>

\* ---------------------------------------------- retryUpload (lines 581-597)

\* entry of retryUpload: the guard of lines 582-584, then the call of line 587
RetryUpload ==
  /\ pc = "retryUpload"
  /\ IF attempt > retryAttempts
       THEN /\ final' = Threw(PlainError(MsgRetryExhausted))
            /\ pc' = "done"
       ELSE /\ pc' = "uploadFile"
            /\ UNCHANGED final
  /\ UNCHANGED << inputs, registry, attempt, delays, calls, validationResult,
                  s3UploadResult, trace, progress >>

\* whether retryUpload, after uploadFile threw on this attempt, waits and tries again
RetriesAfter(n) == n < retryAttempts

\* uploadFileEnds with a retryUpload that also re-attempts after a failure result
uploadFileEndsRetryingFailures(outcome) ==
  /\ calls' = Append(calls, outcome)
  /\ IF outcome.kind = "returned" /\ outcome.result.success
       THEN /\ final' = Returned(outcome.result)
            /\ pc' = "done"
       ELSE IF RetriesAfter(attempt)
       THEN /\ pc' = "delay"
            /\ UNCHANGED final
       ELSE /\ final' = outcome
            /\ pc' = "done"
  /\ UNCHANGED << attempt, delays >>

\* uploadFile ended with `outcome`: retryUpload returns its result (line 587),
\* or in its catch block starts the timer (589-593) or rethrows (595)
uploadFileEnds(outcome) ==
  /\ calls' = Append(calls, outcome)
  /\ IF outcome.kind = "returned"
       THEN /\ final' = Returned(outcome.result)
            /\ pc' = "done"
       ELSE IF RetriesAfter(attempt)
       THEN /\ pc' = "delay"
            /\ UNCHANGED final
       ELSE /\ final' = Threw(outcome.error)
            /\ pc' = "done"
  /\ UNCHANGED << attempt, delays >>

\* the timer of lines 590-592 fires; line 593 calls retryUpload(attempt + 1)
RetryDelayElapsed ==
  /\ pc = "delay"
  /\ delays' = Append(delays, retryDelay * attempt)
  /\ attempt' = attempt + 1
  /\ pc' = "retryUpload"
  /\ UNCHANGED << inputs, registry, calls, final, validationResult, s3UploadResult,
                  trace, progress >>

\* ----------------------------------------------- uploadFile (lines 232-277)

\* HasCredentials without the test of the session id
HasCredentialsTokenOnly(u) == u.present /\ u.token

HasCredentials(u) == u.present /\ u.token /\ u.sessionId

\* useS3Method with the test turned around
useS3MethodInverted(bucket) == ~bucket

\* the choice of the strategy (257): the direct-storage path when a bucket
\* name is configured, the legacy path otherwise
useS3Method(bucket) == bucket

\* uploadFile up to its first request: the log of file.name (233-237), which
\* throws for a missing file, validateFile (239-243), the credentials
\* (246-254) and the choice of the strategy (257-263), whose first statement
\* with an effect is the PUT (196) or the multipart POST (343)
UploadFile ==
  /\ pc = "uploadFile"
  /\ IF ~file.present
       THEN /\ uploadFileEnds(Threw(TypeError))
            /\ validationResult' = NoResult
            /\ trace' = << >>
       ELSE LET v == validateFile(file)
            IN  /\ validationResult' = v
                /\ IF ~v.success
                     THEN /\ uploadFileEnds(Returned(v))
                          /\ trace' = << >>
                   ELSE IF ~HasCredentials(user)
                     THEN /\ uploadFileEnds(Returned(Failure(MsgNoCredentials)))
                          /\ trace' = << >>
                   ELSE IF useS3Method(bucketName)
                     THEN /\ trace' = << Event("PUT", "") >>
                          /\ pc' = "s3Put"
                          /\ UNCHANGED << attempt, delays, calls, final >>
                   ELSE   /\ trace' = << Event("LEGACY_POST", "") >>
                          /\ pc' = "legacyPost"
                          /\ UNCHANGED << attempt, delays, calls, final >>
  /\ s3UploadResult' = NoS3UploadResult
  /\ UNCHANGED << inputs, registry, progress >>

\* an error thrown inside the try block of uploadFile ends it with the result
\* of the catch block
uploadFileCatches(error) == uploadFileEnds(Returned(uploadFileCatch(error)))

\* ------------------------------------------------ uploadToS3 (lines 182-230)

\* uploadToS3Error with the fixed message of line 288 in place of the cause
uploadToS3ErrorGeneric(r) == PlainError(<< "S3 upload failed" >>)

\* the error of line 205 or the rejection of fetch, wrapped by line 228
uploadToS3Error(r) ==
  PlainError(<< "S3 upload failed (wrapped): " >> \o
             (IF r.rejected THEN MsgFailedToFetch
              ELSE << "S3 upload failed: ", ToString(r.status) >>))

\* uploadToS3Progress reporting the start of the transfer as well
uploadToS3ProgressFromZero == << 0, 100 >>

\* the values passed to onProgress once the PUT has answered ok (215-217)
uploadToS3Progress == << 100 >>

\* the calls of onProgress with these values, as events
ProgressEvents(values) ==
  [ i \in 1..Len(values) |-> Event("PROGRESS", ToString(values[i])) ]

\* the storage answers the PUT: not ok, uploadToS3 throws and uploadFile ends
\* in its catch block; ok, uploadToS3 reports the progress and returns, and
\* uploadToS3Method (279-305) goes on to saveFileMetadata, which sends the
\* metadata POST (387)
S3PutResponse ==
  /\ pc = "s3Put"
  /\ \E r \in PutResponses :
       IF ~r.rejected /\ Is2xx(r.status)
         THEN LET s3Key == generateS3Key(file, Config(validationResult.typeConfig))
              IN  /\ progress' = IF onProgress THEN progress \o uploadToS3Progress
                                 ELSE progress
                  /\ s3UploadResult' =
                       [ s3Key |-> s3Key, url |-> getS3Url(cloudFrontDomain, s3Key) ]
                  /\ trace' = trace \o << Event("PUT_ANSWER", "ok") >>
                                \o (IF onProgress THEN ProgressEvents(uploadToS3Progress)
                                    ELSE << >>)
                                \o << Event("META_POST", "") >>
                  /\ pc' = "metaPost"
                  /\ UNCHANGED << attempt, delays, calls, final >>
         ELSE /\ uploadFileCatches(uploadToS3Error(r))
              /\ trace' = Append(trace, Event("PUT_ANSWER",
                                   IF r.rejected THEN "rejected" ELSE ToString(r.status)))
              /\ UNCHANGED << progress, s3UploadResult >>
  /\ UNCHANGED << inputs, registry, validationResult >>

\* ------------------------- uploadToS3Method after saveFileMetadata (305-329)

\* uploadToS3MethodEnds without the test of metadataResponse.success (309)
uploadToS3MethodEndsUnchecked(metadataResponse) ==
  uploadFileEnds(Returned(Success(
    FileRecord("_id", s3UploadResult.s3Key, s3UploadResult.url, s3UploadResult.s3Key))))

\* metadataResponse is what saveFileMetadata returned: {success, message,
\* data:{file}} with shape telling where its file is
uploadToS3MethodEnds(metadataResponse) ==
  IF ~metadataResponse.success
    THEN uploadFileCatches(
           PlainError(OrElse(metadataResponse.message, MsgFileMetadataFailed)))
  ELSE IF metadataResponse.shape # "data.file"
    THEN uploadFileCatches(TypeError)
  ELSE uploadFileEnds(Returned(Success(
         FileRecord("_id", s3UploadResult.s3Key, s3UploadResult.url,
                    s3UploadResult.s3Key))))

\* ------------------------------------------- saveFileMetadata (lines 380-423)

\* whether saveFileMetadata answers this failed POST with a token refresh (400)
RefreshesOn(a) == a.status = 401

\* RetriesOn taking every answer refreshToken returns for a success
RetriesOnAnyAnswer(refreshed) == refreshed # "throws"

\* whether saveFileMetadata calls itself again after this answer of refreshToken (403)
RetriesOn(refreshed) == refreshed = "true"

\* the backend answers the metadata POST: 2xx, saveFileMetadata returns the
\* body (396); 401, it calls refreshToken (402); anything else, it returns
\* the failure of lines 418-421
MetaPostResponse ==
  /\ pc = "metaPost"
  /\ \E a \in MetaResponses :
       /\ a.status = 401 => CountAnswer("META_ANSWER", "401") < MaxUnauthorized
       /\ trace' = IF ~Is2xx(a.status) /\ RefreshesOn(a)
                     THEN trace \o << Event("META_ANSWER", ToString(a.status)),
                                      Event("REFRESH", "") >>
                     ELSE Append(trace, Event("META_ANSWER",
                            IF Is2xx(a.status) /\ a.success THEN "success"
                            ELSE ToString(a.status)))
       /\ IF Is2xx(a.status)
            THEN uploadToS3MethodEnds(a)
          ELSE IF RefreshesOn(a)
            THEN /\ pc' = "refresh"
                 /\ UNCHANGED << attempt, delays, calls, final >>
          ELSE uploadToS3MethodEnds(
                 Answer(a.status, "", FALSE, OrElse(a.message, MsgMetadataSaveFailed), ""))
  /\ UNCHANGED << inputs, registry, validationResult, s3UploadResult, progress >>

\* refreshToken answers: true, saveFileMetadata calls itself (404) and sends
\* the POST again; false or a throw, it returns the session-expired failure
RefreshResponse ==
  /\ pc = "refresh"
  /\ \E refreshed \in RefreshResponses :
       IF RetriesOn(refreshed)
         THEN /\ trace' = trace \o << Event("REFRESH_ANSWER", refreshed),
                                      Event("META_POST", "") >>
              /\ pc' = "metaPost"
              /\ UNCHANGED << attempt, delays, calls, final >>
         ELSE /\ trace' = Append(trace, Event("REFRESH_ANSWER", refreshed))
              /\ uploadToS3MethodEnds(Answer(401, "", FALSE, MsgSessionExpired, ""))
  /\ UNCHANGED << inputs, registry, validationResult, s3UploadResult, progress >>

\* --------------------------------------- uploadToLegacyMethod (lines 332-378)

\* the byte counts the transport reports for a body of `total` bytes
LoadedValues(total) ==
  { 0, total } \cup (IF total <= 10 * MB THEN { total \div 3 } ELSE { })

\* percentCompleted (352-354): Math.round((loaded * 100) / total), with the
\* whole multiples of total taken out first
percentCompleted(loaded, total) ==
  LET rest == loaded % total
  IN  (loaded \div total) * 100 + (2 * rest * 100 + total) \div (2 * total)

\* onUploadProgress (350-357): the transport reports the bytes sent so far
\* and the callback passes the percentage to onProgress, when there is one
LegacyProgress ==
  /\ pc = "legacyPost"
  /\ Count("PROGRESS") < MaxProgressEvents
  /\ \E loaded \in LoadedValues(file.size) :
       IF onProgress
         THEN LET percent == percentCompleted(loaded, file.size)
              IN  /\ progress' = Append(progress, percent)
                  /\ trace' = trace \o ProgressEvents(<< percent >>)
         ELSE UNCHANGED << progress, trace >>
  /\ UNCHANGED << inputs, registry, pc, attempt, delays, calls, final,
                  validationResult, s3UploadResult >>

\* legacyHasFile looking for the file where the metadata endpoint puts it
legacyHasFileInData(a) == a.shape = "data.file"

\* whether response.data.file (367) is there: the body carries the file at
\* its top level
legacyHasFile(a) == a.shape = "file"

\* what the trace keeps of an answer to the multipart POST
LegacyAnswerLabel(a) ==
  IF ~Is2xx(a.status) \/ ~a.success THEN ToString(a.status)
  ELSE IF a.shape = "file" THEN "success"
  ELSE "success data.file"

\* LegacyPostResponse with the refresh-and-retry of saveFileMetadata on a 401
LegacyPostResponseRefreshing ==
  /\ pc = "legacyPost"
  /\ \E a \in LegacyResponses :
       IF a.status = 401
         THEN /\ CountAnswer("LEGACY_ANSWER", "401") < MaxUnauthorized
              /\ trace' = trace \o << Event("LEGACY_ANSWER", LegacyAnswerLabel(a)),
                                      Event("REFRESH", ""), Event("LEGACY_POST", "") >>
              /\ UNCHANGED << pc, attempt, delays, calls, final >>
         ELSE /\ trace' = Append(trace, Event("LEGACY_ANSWER", LegacyAnswerLabel(a)))
              /\ IF ~Is2xx(a.status)
                   THEN uploadFileCatches(AxiosError(a))
                 ELSE IF ~a.success
                   THEN uploadFileEnds(Returned(Failure(OrElse(a.message, MsgLegacyUploadFailed))))
                 ELSE IF ~legacyHasFile(a)
                   THEN uploadFileCatches(TypeError)
                 ELSE uploadFileEnds(Returned(Success(
                        FileRecord("_id", << "filename" >>,
                                   getFileUrl(cloudFrontDomain, << "filename" >>), << >>))))
  /\ UNCHANGED << inputs, registry, validationResult, s3UploadResult, progress >>

\* the backend answers the multipart POST: not 2xx, axios throws and
\* uploadFile ends in its catch block; a body without success gives the
\* failure of 360-365; otherwise the file is read from response.data.file (367)
LegacyPostResponse ==
  /\ pc = "legacyPost"
  /\ \E a \in LegacyResponses :
       /\ trace' = Append(trace, Event("LEGACY_ANSWER", LegacyAnswerLabel(a)))
       /\ IF ~Is2xx(a.status)
            THEN uploadFileCatches(AxiosError(a))
          ELSE IF ~a.success
            THEN uploadFileEnds(Returned(Failure(OrElse(a.message, MsgLegacyUploadFailed))))
          ELSE IF ~legacyHasFile(a)
            THEN uploadFileCatches(TypeError)
          ELSE uploadFileEnds(Returned(Success(
                 FileRecord("_id", << "filename" >>,
                            getFileUrl(cloudFrontDomain, << "filename" >>), << >>))))
  /\ UNCHANGED << inputs, registry, validationResult, s3UploadResult, progress >>

\* ---------------------------------------------- cancelUpload (lines 481-489)

\* a request of the running upload is outstanding
InFlight == pc \in { "s3Put", "metaPost", "refresh", "legacyPost" }

\* the names cancelUpload is called with: the name of the file and another one
CancelNames == { file.name, << "o", "t", "h", "e", "r" >> }

\* whether cancelUpload finds a handle under the name (482-483)
hasHandle(filename) == filename \in activeUploads

\* cancelUpload(filename), called while a request is outstanding: with a
\* handle it signals the cancellation, deletes the entry and returns true;
\* without one it returns false
CancelUpload ==
  /\ InFlight
  /\ Len(cancels) < MaxCancels
  /\ \E filename \in CancelNames :
       /\ cancels' = Append(cancels, [ filename |-> filename,
                                       returned |-> hasHandle(filename) ])
       /\ activeUploads' = IF hasHandle(filename) THEN activeUploads \ { filename }
                           ELSE activeUploads
  /\ UNCHANGED << inputs, pc, attempt, delays, calls, final, validationResult,
                  s3UploadResult, trace, progress >>

\* ------------------------------------------------------------ specification

Next ==
  \/ RetryUpload
  \/ UploadFile
  \/ S3PutResponse
  \/ MetaPostResponse
  \/ RefreshResponse
  \/ LegacyPostResponse
  \/ LegacyProgress
  \/ RetryDelayElapsed
  \/ CancelUpload

Spec == Init /\ [][Next]_vars

\* ------------------------------------------------------------------ claims

Done == pc = "done"

\* an uploadFile invocation failed: it threw, or returned {success: false}
Failed(outcome) == outcome.kind = "threw" \/ ~outcome.result.success

Succeeded(outcome) == outcome.kind = "returned" /\ outcome.result.success

\* validateFile has run in the running uploadFile invocation
Validated == validationResult # NoResult

Last(seq) == seq[Len(seq)]

\* the file passed validateFile and the user has a token and a session id, so
\* the running uploadFile invocation went on to its transfer
Accepted == Validated /\ validationResult.success /\ HasCredentials(user)

\* C1: a call retryUpload(file, onProgress) started at attempt 1, for an
\* accepted file, re-attempts a failed upload: when it has ended, a failed
\* first attempt was followed by a second one after a delay of retryDelay * 1,
\* a failed second attempt by a third one after a delay of retryDelay * 2, and
\* a success on the third attempt is what retryUpload returned, after exactly
\* 3 invocations of uploadFile and exactly the two delays.
C1_RetriesUntilThirdAttemptSucceeds ==
  (startAttempt = 1 /\ Done /\ Accepted) =>
    /\ Failed(calls[1]) =>
         Len(calls) >= 2 /\ Len(delays) >= 1 /\ delays[1] = retryDelay * 1
    /\ (Len(calls) >= 2 /\ Failed(calls[1]) /\ Failed(calls[2])) =>
         Len(calls) = 3 /\ delays = << retryDelay * 1, retryDelay * 2 >>
    /\ (Len(calls) = 3 /\ Succeeded(calls[3])) =>
         final = Returned(calls[3].result)

\* C2: a call retryUpload started at attempt 1, for an accepted file, whose
\* upload failed on every attempt has invoked uploadFile exactly 3 times and
\* ended by throwing the 'maximum retry count exceeded' error, not with the
\* last attempt's error or failure result.
C2_ExhaustedRetriesThrowRetryExhausted ==
  (startAttempt = 1 /\ Done /\ Accepted /\ \A i \in 1..Len(calls) : Failed(calls[i])) =>
    /\ Len(calls) = 3
    /\ final = Threw(PlainError(MsgRetryExhausted))

\* C3: within one saveFileMetadata call refreshToken is called at most once
\* and the metadata POST is sent at most twice; a retried POST that answers
\* 401 ends the call with the session-expired failure.
C3_AtMostOneRefreshAndTwoPosts ==
  /\ Count("REFRESH") <= 1
  /\ Count("META_POST") <= 2
  /\ (CountAnswer("META_ANSWER", "401") >= 2) =>
       /\ Done
       /\ Last(calls).result.message = MsgSessionExpired

\* C4: on the direct-storage path, once refreshToken has reported failure
\* (false or a throw) after a 401 of the metadata POST, nothing more is sent
\* (no metadata POST, no refresh) and uploadFile has returned a failure result
\* whose message is the session-expired message.
C4_FailedRefreshEndsSessionExpired ==
  bucketName =>
    \A i \in 1..Len(trace) :
      (trace[i].ev = "REFRESH_ANSWER" /\ trace[i].r # "true") =>
        /\ i = Len(trace)
        /\ trace[i - 2] = Event("META_ANSWER", "401")
        /\ Done
        /\ Len(calls) >= 1
        /\ Last(calls).kind = "returned"
        /\ ~Last(calls).result.success
        /\ Last(calls).result.message = MsgSessionExpired

C4_Witness ==
  /\ bucketName
  /\ Done
  /\ Len(trace) >= 1
  /\ Last(trace).ev = "REFRESH_ANSWER"
  /\ Last(trace).r \in { "false", "throws" }

\* the requests of the direct-storage path, their answers and the progress call
DirectPathEvents ==
  { "PUT", "PUT_ANSWER", "PROGRESS", "META_POST", "META_ANSWER", "REFRESH",
    "REFRESH_ANSWER" }

\* C5: on the direct-storage path uploadFile returns a success result with a
\* FileRecord only if in that call the storage PUT answered 2xx and the
\* metadata POST answered success; when the PUT answered 2xx and no metadata
\* POST answered success, uploadFile returned a failure result and sent
\* nothing but the PUT, metadata POSTs and refreshes (no compensating request).
C5_FileRecordOnlyAfterPutAndMetadata ==
  (bucketName /\ Len(calls) >= 1) =>
    /\ Succeeded(Last(calls)) =>
         /\ CountAnswer("PUT_ANSWER", "ok") = 1
         /\ Last(trace) = Event("META_ANSWER", "success")
         /\ Last(calls).result.file.id # ""
    /\ (CountAnswer("PUT_ANSWER", "ok") = 1 /\ CountAnswer("META_ANSWER", "success") = 0) =>
         /\ Last(calls).kind = "returned"
         /\ ~Last(calls).result.success
         /\ Last(calls).result.file = NoFileRecord
         /\ \A i \in 1..Len(trace) : trace[i].ev \in DirectPathEvents
         /\ Count("PUT") = 1

C5_Witness ==
  /\ bucketName
  /\ Done
  /\ CountAnswer("PUT_ANSWER", "ok") = 1
  /\ CountAnswer("META_ANSWER", "success") = 0
  /\ Count("META_ANSWER") >= 1
  /\ ~Last(calls).result.success

\* C6: every uploadFile invocation ended by returning a result object, and so
\* did a retryUpload call started at attempt 1: none of them threw.
C6_NothingThrows ==
  /\ \A i \in 1..Len(calls) : calls[i].kind = "returned"
  /\ (startAttempt = 1 /\ Done) => final.kind = "returned"

\* C7: a file whose size exceeds uploadLimit fails validateFile, whatever its
\* declared MIME type and its name.
C7_OverGlobalCapFails ==
  (Validated /\ file.size > uploadLimit) => ~validationResult.success

C7_Witness ==
  /\ Validated
  /\ file.size > uploadLimit
  /\ Includes(allowedTypes[2].mimeTypes, file.type)
  /\ Includes(allowedTypes[2].extensions, toLowerCase(getFileExtension(file.name)))

\* the lower-cased extension of the file argument
FileExt == toLowerCase(getFileExtension(file.name))

\* the classes whose MIME types include the declared type of the file
MimeClasses ==
  { i \in 1..Len(allowedTypes) : Includes(allowedTypes[i].mimeTypes, file.type) }

\* the classes whose extensions include the extension of the file
ExtClasses ==
  LET ext == FileExt
  IN  { i \in 1..Len(allowedTypes) : Includes(allowedTypes[i].extensions, ext) }

\* C8: a file whose declared MIME type is in a class's MIME set while its
\* lower-cased extension is not in that class's extension set fails
\* validateFile, also when another class has that extension.
C8_MimeMatchForeignExtensionFails ==
  LET classes == ExtClasses
  IN  (Validated /\ \E i \in MimeClasses : i \notin classes) =>
        ~validationResult.success

C8_Witness ==
  /\ Validated
  /\ \E i \in MimeClasses : i \notin ExtClasses
  /\ ExtClasses # {}
  /\ validationResult.message = MsgBadExtension(allowedTypes[CHOOSE i \in MimeClasses : TRUE])

FirstExtClass ==
  LET classes == ExtClasses
  IN  CHOOSE i \in classes : \A j \in classes : i <= j

\* C9: a file whose declared MIME type is in no class's MIME set and whose
\* lower-cased extension is in some class's extension set passes validateFile
\* with the first class, in configuration order, that has the extension.
C9_ExtensionFallbackSucceeds ==
  LET first == FirstExtClass
  IN  (Validated /\ MimeClasses = {} /\ ExtClasses # {}) =>
        /\ validationResult.success
        /\ validationResult.typeConfig = allowedTypes[first].key

\* C9 as amended: the same, for a file whose size exceeds neither uploadLimit
\* nor the maxSize of that class.
C9_ExtensionFallbackSucceedsWithinSize ==
  LET first == FirstExtClass
  IN  (/\ Validated
       /\ MimeClasses = {}
       /\ ExtClasses # {}
       /\ file.size <= uploadLimit
       /\ file.size <= allowedTypes[first].maxSize) =>
        /\ validationResult.success
        /\ validationResult.typeConfig = allowedTypes[first].key

C9_Witness ==
  /\ Validated
  /\ MimeClasses = {}
  /\ file.type # ""
  /\ file.name # FileExt
  /\ validationResult.success
  /\ validationResult.typeConfig = "archive"

\* C10: when validateFile has rejected the file, retryUpload has invoked
\* uploadFile exactly once, has waited no delay and has returned the
\* validation failure to its caller.
C10_ValidationFailureNotRetried ==
  (Validated /\ ~validationResult.success) =>
    /\ Done
    /\ Len(calls) = 1
    /\ delays = << >>
    /\ final = Returned(validationResult)

C10_Witness ==
  /\ Validated
  /\ ~validationResult.success
  /\ startAttempt = 1
  /\ Done

\* C11: while a request of an upload of the file is outstanding the registry
\* holds a handle under the name of the file, so a cancelUpload of that name
\* made then returned true and the upload ends with the cancelled failure
\* result; a cancelUpload of a name without a handle returned false.
C11_InFlightUploadIsCancellable ==
  /\ InFlight => file.name \in activeUploads
  /\ \A i \in 1..Len(cancels) :
       cancels[i].filename = file.name =>
         /\ cancels[i].returned
         /\ Done => Last(calls).result.message = MsgCancelled
  /\ \A i \in 1..Len(cancels) :
       cancels[i].filename # file.name => ~cancels[i].returned

\* C12: on the direct-storage path with a progress callback, the callback has
\* been called exactly once, with 100, when the storage PUT has answered 2xx,
\* and not at all otherwise; the call comes right after the answer of the PUT
\* and before the metadata POST is sent.
C12_ProgressOnceAfterPut ==
  (bucketName /\ onProgress) =>
    /\ progress = IF CountAnswer("PUT_ANSWER", "ok") = 1 THEN << 100 >> ELSE << >>
    /\ Count("PROGRESS") = Len(progress)
    /\ \A i \in 1..Len(trace) :
         trace[i].ev = "PROGRESS" =>
           /\ trace[i] = Event("PROGRESS", "100")
           /\ trace[i - 1] = Event("PUT_ANSWER", "ok")
           /\ \A j \in 1..i : trace[j].ev # "META_POST"

C12_Witness ==
  /\ bucketName
  /\ onProgress
  /\ progress = << 100 >>
  /\ Count("META_POST") >= 1

\* C13: on the legacy path, a success body of the shape of the metadata
\* endpoint, {success: true, data: {file}}, makes uploadFile return a success
\* result with the record of the file and its retrieval URL.
C13_LegacyDocumentedShapeSucceeds ==
  (~bucketName /\ CountAnswer("LEGACY_ANSWER", "success data.file") = 1) =>
    /\ Done
    /\ Succeeded(Last(calls))
    /\ Last(calls).result.file.id # ""
    /\ Last(calls).result.file.url # << >>

\* C13 as amended: a success body that carries the file at its top level,
\* {success: true, file: {filename, ...}}, makes uploadFile return a success
\* result with that record and the retrieval URL of its filename.
C13_LegacyTopLevelFileSucceeds ==
  (~bucketName /\ CountAnswer("LEGACY_ANSWER", "success") = 1) =>
    /\ Done
    /\ Succeeded(Last(calls))
    /\ final = Returned(Last(calls).result)
    /\ Last(calls).result.file.id = "_id"
    /\ Last(calls).result.file.url =
         getS3Url(cloudFrontDomain, Last(calls).result.file.filename)

C13_Witness ==
  /\ ~bucketName
  /\ cloudFrontDomain
  /\ CountAnswer("LEGACY_ANSWER", "success") = 1
  /\ Last(calls).result.file.url = << "https://", "cloudFrontDomain", "/", "filename" >>

\* C14: on the direct-storage path a metadata POST is sent only after the PUT
\* of the same call has answered 2xx; when the PUT answered non-2xx or got no
\* answer, no metadata POST was sent and uploadFile has returned a failure
\* result whose message carries the storage failure, with the HTTP status of a
\* non-2xx answer.
C14_MetadataOnlyAfterStoredPut ==
  bucketName =>
    /\ \A i \in 1..Len(trace) :
         trace[i].ev = "META_POST" =>
           \E j \in 1..(i - 1) : trace[j] = Event("PUT_ANSWER", "ok")
    /\ \A i \in 1..Len(trace) :
         (trace[i].ev = "PUT_ANSWER" /\ trace[i].r # "ok") =>
           /\ Count("META_POST") = 0
           /\ Done
           /\ Last(calls).kind = "returned"
           /\ ~Last(calls).result.success
           /\ Last(calls).result.message =
                << "S3 upload failed (wrapped): " >> \o
                (IF trace[i].r = "rejected" THEN MsgFailedToFetch
                 ELSE << "S3 upload failed: ", trace[i].r >>)

C14_Witness ==
  /\ bucketName
  /\ Done
  /\ Len(trace) >= 1
  /\ Last(trace) = Event("PUT_ANSWER", "403")
  /\ Last(calls).result.message =
       << "S3 upload failed (wrapped): ", "S3 upload failed: ", "403" >>

\* C15: the strategy is fixed by the bucket name: an uploadFile call that has
\* passed validation and the credentials test starts with the storage PUT when
\* a bucket name is configured and then never sends the multipart POST, and
\* starts with the multipart POST when none is configured and then never sends
\* a PUT or a metadata POST; and no step changes whether a bucket name is
\* configured.
C15_StrategyFixedByBucketName ==
  /\ [](/\ Accepted => (Len(trace) >= 1 /\
                        trace[1].ev = IF bucketName THEN "PUT" ELSE "LEGACY_POST")
        /\ bucketName => Count("LEGACY_POST") = 0
        /\ ~bucketName => (Count("PUT") = 0 /\ Count("META_POST") = 0))
  /\ [][bucketName' = bucketName]_vars

C15_Witness ==
  /\ Accepted
  /\ ~bucketName
  /\ Done
  /\ Count("LEGACY_POST") = 1

\* C16: the token is refreshed for the metadata POST only: on the legacy path
\* no refresh is ever called and the multipart POST is sent once, and after a
\* 401 answer to it uploadFile has returned a failure result without sending
\* anything more; on the direct-storage path a PUT that failed is followed by
\* no refresh.
C16_RefreshOnlyForMetadata ==
  /\ ~bucketName =>
       /\ Count("REFRESH") = 0
       /\ Count("LEGACY_POST") <= 1
       /\ \A i \in 1..Len(trace) :
            trace[i] = Event("LEGACY_ANSWER", "401") =>
              /\ i = Len(trace)
              /\ Done
              /\ Last(calls).kind = "returned"
              /\ ~Last(calls).result.success
  /\ bucketName =>
       \A i \in 1..Len(trace) :
         (trace[i].ev = "PUT_ANSWER" /\ trace[i].r # "ok") =>
           (i = Len(trace) /\ Count("REFRESH") = 0)

C16_Witness ==
  /\ ~bucketName
  /\ Done
  /\ Len(trace) >= 2
  /\ Last(trace) = Event("LEGACY_ANSWER", "401")
  /\ Last(calls).result.message = MsgAuthRequired

\* C17: an uploadFile call whose file validateFile rejected, or whose user
\* lacks a token or a session id, has sent no request and called no refresh,
\* has not called the progress callback and has returned a failure result; a
\* call for a missing file has sent nothing either; and a storage PUT or a
\* multipart POST is only ever sent in a call whose file passed validateFile
\* and whose user has both credentials.
C17_NothingSentForRejectedFile ==
  /\ (Validated /\ (~validationResult.success \/ ~HasCredentials(user))) =>
       /\ trace = << >>
       /\ progress = << >>
       /\ Done
       /\ Last(calls).kind = "returned"
       /\ ~Last(calls).result.success
  /\ ~file.present => (trace = << >> /\ progress = << >>)
  /\ (Count("PUT") + Count("LEGACY_POST") > 0) =>
       /\ validateFile(file).success
       /\ validationResult.success
       /\ user.present /\ user.token /\ user.sessionId

C17_Witness ==
  /\ Validated
  /\ validationResult.success
  /\ user.present /\ user.token /\ ~user.sessionId
  /\ Done
  /\ Last(calls).result.message = MsgNoCredentials

====
